---- MODULE Spec2Model ----
(***************************************************************************)
(* Model of .statuspage/fetch_status.py: one invocation of the script that *)
(* polls the dbt Cloud API for the latest run of every configured job,     *)
(* derives a colour per job and writes status.json and index.html.         *)
(*                                                                         *)
(* JSON objects are TLA+ records/functions whose DOMAIN is the set of keys *)
(* present; JSON arrays are sequences.  Python's None is None where an     *)
(* object is expected and null where a string is expected (TLC compares    *)
(* only values of one kind).                                               *)
(***************************************************************************)
EXTENDS Integers, Sequences, FiniteSets, TLC

VARIABLES
    JOB_MAP,      \* job id -> display name (line 11), {} when unset or malformed
    JOB_IDS,      \* the configured job ids, in configuration order (lines 15-18)
    pc,           \* position of the script
    i,            \* position of the loop "for jid in JOB_IDS" (line 93)
    run,          \* the loop's variable run (line 94)
    run_results,  \* parse_status's local run_results (line 39)
    sources,      \* parse_status's local sources (line 45)
    rows,         \* the list rows (line 92)
    calls,        \* history: the HTTP requests issued so far, with their outcome
    exc,          \* the exception that ended the script, "" while there is none
    status_json,  \* what was dumped to .statuspage/out/status.json, None before
    index_html,   \* what was written to .statuspage/out/index.html, None before
    arg,          \* input of the function under test (function specifications)
    res           \* its result

vars == <<JOB_MAP, JOB_IDS, pc, i, run, run_results, sources, rows, calls, exc,
          status_json, index_html, arg, res>>

-----------------------------------------------------------------------------
(* Bounds of the model *)

MaxJobs == 2
MaxLen == 3
MaxRows == 3

(* Program constants *)

HTTP_OK == 200
SUCCESS == 10
ERROR == 20

-----------------------------------------------------------------------------
(* Python values *)

None == [none |-> TRUE]
null == "<None>"
EmptyDict == <<>>

\* d.get(k) for a key holding a string
get(d, k) == IF k \in DOMAIN d THEN d[k] ELSE null

\* truth value of a string-or-None
truthy(s) == s # null /\ s # ""

\* a or b, on strings
or(a, b) == IF truthy(a) THEN a ELSE b

\* truth value of a dict-or-None
truthy_dict(d) == d # None /\ DOMAIN d # {}

\* str(s) as an f-string renders a string-or-None
str(s) == IF s = null THEN "None" ELSE s

\* str.lower() on the status strings of the model
lower(s) ==
    CASE s = "ERROR" -> "error"
      [] s = "Warn" -> "warn"
      [] s = "PASS" -> "pass"
      [] OTHER -> s

-----------------------------------------------------------------------------
(* parse_status, lines 35-90.  Its two HTTP calls (lines 39 and 45) are the  *)
(* actions GetRunResults and GetSources below; the operators here are what  *)
(* it computes from the values those calls returned.                        *)

\* line 37: run.get("is_complete") is False
in_progress(r) == "is_complete" \in DOMAIN r /\ r.is_complete = FALSE

\* lines 40-43: the entries of kind "test" with outcome "fail"
failed_tests(rr) ==
    Cardinality({k \in 1..Len(rr.results) :
        /\ get(rr.results[k], "resource_type") = "test"
        /\ get(rr.results[k], "status") = "fail"})

\* line 54: the display name of a legacy entry
legacy_name(fs) ==
    or(get(fs, "name"), or(get(fs, "source_name"), or(get(fs, "unique_id"), "source")))

\* all_pass, comparing the statuses without regard to case
all_pass_any_case(srcs) == \A k \in 1..Len(srcs) : lower(get(srcs[k], "status")) = "pass"

\* line 50: all(s.get("status") == "pass" for s in sources["sources"])
all_pass(srcs) == \A k \in 1..Len(srcs) : get(srcs[k], "status") = "pass"

\* line 51: [s for s in sources["sources"] if s.get("status") != "pass"]
failing_sources(srcs) == SelectSeq(srcs, LAMBDA s : get(s, "status") # "pass")

\* lines 49-55: the legacy schema
legacy(srcs) ==
    LET failing == failing_sources(srcs)
        fs == failing[1]
    IN  [freshness |-> IF all_pass(srcs) THEN "ok" ELSE "fail",
         freshness_detail |->
            IF failing # <<>>
            THEN legacy_name(fs) \o " " \o str(get(fs, "status"))
            ELSE ""]

\* line 59 and the key of line 60: severity.get((r.get("status") or "").lower(), 0)
severity(r) ==
    LET s == lower(or(get(r, "status"), ""))
    IN  CASE s = "error" -> 3 [] s = "warn" -> 2 [] s = "pass" -> 1 [] OTHER -> 0

\* max_from, keeping the last of the maximal entries
RECURSIVE max_from_last(_, _, _)
max_from_last(results, k, best) ==
    IF k > Len(results) THEN best
    ELSE max_from_last(results, k + 1,
                       IF severity(results[k]) >= severity(best) THEN results[k] ELSE best)

\* line 60: max(results, key=...), which keeps the first of the maximal entries
RECURSIVE max_from(_, _, _)
max_from(results, k, best) ==
    IF k > Len(results) THEN best
    ELSE max_from(results, k + 1,
                  IF severity(results[k]) > severity(best) THEN results[k] ELSE best)

max_severity(results) == max_from(results, 2, results[1])

\* line 68: the display name of a current-schema entry
current_name(w) ==
    or(get(w, "source_name"), or(get(w, "name"), or(get(w, "unique_id"), "source")))

\* line 57: [r for r in sources["results"] if r.get("status")]
with_status(entries) == SelectSeq(entries, LAMBDA r : truthy(get(r, "status")))

\* lines 57-75: the current schema
current(entries) ==
    LET results == with_status(entries)
        worst == max_severity(results)
        worst_status == lower(or(get(worst, "status"), ""))
        time_ago == get(worst, "max_loaded_at_time_ago_in_words")
        label == IF worst_status = "pass" THEN "fresh" ELSE worst_status
    IN  IF results = <<>>
        THEN [freshness |-> "unknown", freshness_detail |-> ""]
        ELSE [freshness |->
                CASE worst_status = "error" -> "fail"
                  [] worst_status = "warn" -> "amber"
                  [] worst_status = "pass" -> "ok"
                  [] OTHER -> "unknown",
              freshness_detail |->
                current_name(worst)
                \o (IF label # "" THEN " " \o label ELSE "")
                \o (IF truthy(time_ago) THEN " (" \o time_ago \o ")" ELSE "")]

\* lines 46-75: the freshness verdict and its detail, from the local sources
evaluate_freshness(src) ==
    IF "sources" \in DOMAIN src THEN legacy(src.sources)
    ELSE IF "results" \in DOMAIN src THEN current(src.results)
    ELSE [freshness |-> "unknown", freshness_detail |-> ""]

\* f"{status}" of run.get("status")
status_text(r) == IF "status" \in DOMAIN r THEN ToString(r.status) ELSE "None"

\* status == code, for run.get("status")
status_is(r, code) == "status" \in DOMAIN r /\ r.status = code

\* decide, with a warning-level freshness downgrading a successful run too
decide_amber_downgrades(r, failed, freshness) ==
    IF in_progress(r)
    THEN [color |-> "amber", reason |-> "run in progress"]
    ELSE IF status_is(r, SUCCESS)
    THEN IF failed > 0 \/ freshness = "fail" \/ freshness = "amber"
         THEN [color |-> "amber",
               reason |-> "success with issues: tests=" \o ToString(failed)
                          \o ", freshness=" \o freshness]
         ELSE [color |-> "green", reason |-> "last run success"]
    ELSE IF status_is(r, ERROR)
    THEN [color |-> "red", reason |-> "last run failed"]
    ELSE [color |-> "amber", reason |-> "status " \o status_text(r)]

\* decide, with the status code looked at before the completion flag
decide_status_first(r, failed, freshness) ==
    IF status_is(r, SUCCESS)
    THEN IF failed > 0 \/ freshness = "fail"
         THEN [color |-> "amber",
               reason |-> "success with issues: tests=" \o ToString(failed)
                          \o ", freshness=" \o freshness]
         ELSE [color |-> "green", reason |-> "last run success"]
    ELSE IF status_is(r, ERROR)
    THEN [color |-> "red", reason |-> "last run failed"]
    ELSE IF in_progress(r)
    THEN [color |-> "amber", reason |-> "run in progress"]
    ELSE [color |-> "amber", reason |-> "status " \o status_text(r)]

\* decide, with the downgrade applied to every complete run, not only a successful one
decide_issues_first(r, failed, freshness) ==
    IF in_progress(r)
    THEN [color |-> "amber", reason |-> "run in progress"]
    ELSE IF failed > 0 \/ freshness = "fail"
    THEN [color |-> "amber",
          reason |-> "success with issues: tests=" \o ToString(failed)
                     \o ", freshness=" \o freshness]
    ELSE IF status_is(r, SUCCESS)
    THEN [color |-> "green", reason |-> "last run success"]
    ELSE IF status_is(r, ERROR)
    THEN [color |-> "red", reason |-> "last run failed"]
    ELSE [color |-> "amber", reason |-> "status " \o status_text(r)]

\* lines 77-88: the decision table
decide(r, failed, freshness) ==
    IF in_progress(r)
    THEN [color |-> "amber", reason |-> "run in progress"]
    ELSE IF status_is(r, SUCCESS)
    THEN IF failed > 0 \/ freshness = "fail"
         THEN [color |-> "amber",
               reason |-> "success with issues: tests=" \o ToString(failed)
                          \o ", freshness=" \o freshness]
         ELSE [color |-> "green", reason |-> "last run success"]
    ELSE IF status_is(r, ERROR)
    THEN [color |-> "red", reason |-> "last run failed"]
    ELSE [color |-> "amber", reason |-> "status " \o status_text(r)]

\* parse_status, giving up on freshness when there are no test results
parse_status_no_results(r, rr, src) ==
    LET f == IF rr.results = <<>>
             THEN [freshness |-> "unknown", freshness_detail |-> ""]
             ELSE evaluate_freshness(src)
        n == failed_tests(rr)
        d == decide(r, n, f.freshness)
    IN  [color |-> d.color, reason |-> d.reason, failed_tests |-> n,
         freshness |-> f.freshness, freshness_detail |-> f.freshness_detail]

\* lines 35-90: what parse_status returns
parse_status(r, rr, src) ==
    LET f == evaluate_freshness(src)
        n == failed_tests(rr)
        d == decide(r, n, f.freshness)
    IN  [color |-> d.color, reason |-> d.reason, failed_tests |-> n,
         freshness |-> f.freshness, freshness_detail |-> f.freshness_detail]

-----------------------------------------------------------------------------
(* The HTTP client, lines 23-33 *)

\* raise_for_status, raising for the server errors only
raise_for_status_5xx(code) == code >= 500 /\ code < 600

\* r.raise_for_status() raises for the 4xx and 5xx codes
raise_for_status(code) == code >= 400 /\ code < 600

\* lines 28-29: r.json().get("data", []), then data[0] if data else None
first_run(body) ==
    LET data == IF "data" \in DOMAIN body THEN body.data ELSE <<>>
    IN  IF data # <<>> THEN data[1] ELSE None

\* line 33: r.json() if r.status_code == 200 else None
get_artifact(code, body) == IF code = HTTP_OK THEN body ELSE None

\* x or default, on dicts (lines 39, 45, 113)
or_dict(x, default) == IF truthy_dict(x) THEN x ELSE default

-----------------------------------------------------------------------------
(* The rows, lines 92-131 *)

ACCOUNT == "77"

\* JOB_MAP.get(jid)
job_map_get(jid) == IF jid \in DOMAIN JOB_MAP THEN JOB_MAP[jid] ELSE null

\* no_run_row, with the reason parse_status starts from (line 77)
no_run_row_no_data(jid) ==
    [job_id |-> jid,
     run_id |-> None,
     job_name |-> IF jid \in DOMAIN JOB_MAP THEN JOB_MAP[jid] ELSE jid,
     color |-> "grey",
     reason |-> "no data",
     failed_tests |-> "-",
     freshness |-> "unknown",
     freshness_detail |-> "",
     freshness_display |-> "unknown",
     started_at |-> null,
     finished_at |-> null,
     in_progress |-> FALSE,
     href |-> "https://cloud.getdbt.com/#/accounts/" \o ACCOUNT \o "/jobs/" \o jid]

\* lines 96-110: the record of a job that has no run
no_run_row(jid) ==
    [job_id |-> jid,
     run_id |-> None,
     job_name |-> IF jid \in DOMAIN JOB_MAP THEN JOB_MAP[jid] ELSE jid,
     color |-> "grey",
     reason |-> "no runs",
     failed_tests |-> "-",
     freshness |-> "unknown",
     freshness_detail |-> "",
     freshness_display |-> "unknown",
     started_at |-> null,
     finished_at |-> null,
     in_progress |-> FALSE,
     href |-> "https://cloud.getdbt.com/#/accounts/" \o ACCOUNT \o "/jobs/" \o jid]

\* lines 112-131: the record of a job from its run and what parse_status returned
run_row(jid, r, p) ==
    LET job_data == or_dict(IF "job" \in DOMAIN r THEN r.job ELSE None, EmptyDict)
    IN  [job_id |-> jid,
         run_id |-> r.id,
         job_name |-> or(job_map_get(jid), or(get(job_data, "name"), jid)),
         color |-> p.color,
         reason |-> p.reason,
         failed_tests |-> p.failed_tests,
         freshness |-> p.freshness,
         freshness_detail |-> p.freshness_detail,
         freshness_display |->
            IF p.freshness_detail # ""
            THEN p.freshness \o ": " \o p.freshness_detail
            ELSE p.freshness,
         started_at |-> get(r, "started_at"),
         finished_at |-> get(r, "finished_at"),
         in_progress |-> in_progress(r),
         href |-> "https://cloud.getdbt.com/#/accounts/" \o ACCOUNT \o "/jobs/" \o jid
                  \o "/runs/" \o ToString(r.id)]

-----------------------------------------------------------------------------
(* The aggregate, lines 133-142 *)

\* priority, with the ranks of red and amber exchanged
priority_amber_first(r) ==
    CASE r.color = "red" -> 2 [] r.color = "amber" -> 3 [] r.color = "green" -> 1
      [] OTHER -> 0

\* line 133 and the key of line 134: priority.get(r["color"], 0)
priority(r) ==
    CASE r.color = "red" -> 3 [] r.color = "amber" -> 2 [] r.color = "green" -> 1
      [] OTHER -> 0

\* line 134: max(rows, key=...), which keeps the first of the maximal rows
RECURSIVE max_row_from(_, _, _)
max_row_from(rs, k, best) ==
    IF k > Len(rs) THEN best
    ELSE max_row_from(rs, k + 1, IF priority(rs[k]) > priority(best) THEN rs[k] ELSE best)

\* line 134
overall(rs) == IF rs # <<>> THEN max_row_from(rs, 2, rs[1]).color ELSE "grey"

\* line 135: Counter(r["color"] for r in rows)
RECURSIVE counter_from(_, _, _)
counter_from(rs, k, acc) ==
    IF k > Len(rs) THEN acc
    ELSE counter_from(rs, k + 1,
            [c \in DOMAIN acc \cup {rs[k].color} |->
                (IF c \in DOMAIN acc THEN acc[c] ELSE 0)
                + (IF c = rs[k].color THEN 1 ELSE 0)])

\* color_counts, recording that a colour occurs instead of counting it
RECURSIVE counter_seen(_, _, _)
counter_seen(rs, k, acc) ==
    IF k > Len(rs) THEN acc
    ELSE counter_seen(rs, k + 1,
            [c \in DOMAIN acc \cup {rs[k].color} |->
                IF c = rs[k].color THEN 1 ELSE acc[c]])

color_counts_seen(rs) == counter_seen(rs, 1, EmptyDict)

color_counts(rs) == counter_from(rs, 1, EmptyDict)

\* lines 137-141: the parts of the summary, before they are joined
RECURSIVE color_parts(_, _)
color_parts(counts, colors) ==
    IF colors = <<>> THEN <<>>
    ELSE (IF Head(colors) \in DOMAIN counts
          THEN <<ToString(counts[Head(colors)]) \o " " \o Head(colors)>>
          ELSE <<>>) \o color_parts(counts, Tail(colors))

summary_parts(rs) ==
    <<ToString(Len(rs)) \o " job" \o (IF Len(rs) # 1 THEN "s" ELSE "")>>
    \o color_parts(color_counts(rs), <<"green", "amber", "red", "grey">>)

\* lines 146-152: the dumped object (generated_at, the clock, is left out)
snapshot(rs) ==
    [overall |-> overall(rs), total_jobs |-> Len(rs), counts |-> color_counts(rs),
     jobs |-> rs]

\* lines 182-187: what the template is rendered from (updated, the clock, is left out)
page(rs) == [overall |-> overall(rs), jobs |-> rs, summary |-> summary_parts(rs)]

-----------------------------------------------------------------------------
(* The environment: the configuration and what the API may answer *)

\* the k-th job id of the configuration
JobId(k) == ToString(100 + k)

\* DBT_JOB_MAP unset (the ids come from DBT_CLOUD_JOB_IDS, in either order), or
\* a JSON object naming every job
Configs ==
    UNION {
        {[map |-> EmptyDict, ids |-> [k \in 1..n |-> JobId(k)]],
         [map |-> EmptyDict, ids |-> [k \in 1..n |-> JobId(n + 1 - k)]],
         [map |-> [j \in {JobId(k) : k \in 1..n} |-> "nightly " \o j],
          ids |-> [k \in 1..n |-> JobId(k)]]} : n \in 1..MaxJobs}

\* the runs of the k-th job the functions are evaluated on
Runs(k) ==
    {[id |-> 9000 + k, status |-> s, is_complete |-> c, started_at |-> "09:00",
      finished_at |-> IF c THEN "09:30" ELSE null] :
        s \in {SUCCESS, ERROR, 30}, c \in BOOLEAN}
    \cup {[id |-> 9000 + k, status |-> SUCCESS, started_at |-> "09:00",
           finished_at |-> "09:30", job |-> [name |-> "Nightly build"]],
          [id |-> 9000 + k, is_complete |-> TRUE, job |-> EmptyDict]}

\* the runs the listing answers with when the script is run
ListedRuns(k) ==
    {[id |-> 9000 + k, status |-> SUCCESS, is_complete |-> TRUE,
      started_at |-> "09:00", finished_at |-> "09:30",
      job |-> [name |-> "Nightly build"]],
     [id |-> 9000 + k, status |-> ERROR, is_complete |-> TRUE,
      started_at |-> "09:00", finished_at |-> "09:30"],
     [id |-> 9000 + k, status |-> 30, is_complete |-> FALSE,
      started_at |-> "09:00", finished_at |-> null]}

\* the answers of the API: a 200 with one of the bodies, or a 404 or a 500,
\* which carry no document
Answers(bodies) ==
    {[code |-> HTTP_OK, body |-> b] : b \in bodies}
    \cup {[code |-> c, body |-> EmptyDict] : c \in {404, 500}}

\* the bodies of a 200 answer of the listing
ListingBodies(k) ==
    {EmptyDict, [data |-> <<>>]} \cup {[data |-> <<r>>] : r \in ListedRuns(k)}

\* a run_results.json with two failed tests among four results
FailedTwice ==
    [results |-> <<[resource_type |-> "test", status |-> "fail"],
                   [resource_type |-> "model", status |-> "fail"],
                   [resource_type |-> "test", status |-> "pass"],
                   [resource_type |-> "test", status |-> "fail"]>>]

\* a sources.json of the legacy schema with a failing source
LegacyFailing ==
    [sources |-> <<[name |-> "orders", status |-> "pass"],
                   [source_name |-> "users", status |-> "error"]>>]

\* a sources.json of the current schema, all fresh
CurrentFresh ==
    [results |-> <<[source_name |-> "raw", status |-> "pass",
                    max_loaded_at_time_ago_in_words |-> "2 hours"]>>]

\* the bodies of run_results.json and of sources.json when the script is run
RunResultsBodies == {FailedTwice}
SourcesBodies == {LegacyFailing, CurrentFresh}

-----------------------------------------------------------------------------
(* The script *)

Init ==
    /\ \E c \in Configs : JOB_MAP = c.map /\ JOB_IDS = c.ids
    /\ pc = "loop"
    /\ i = 1
    /\ run = None
    /\ run_results = None
    /\ sources = None
    /\ rows = <<>>
    /\ calls = <<>>
    /\ exc = ""
    /\ status_json = None
    /\ index_html = None
    /\ arg = None
    /\ res = None

\* an entry of the history of HTTP requests: the request and its answer
Call(url, jid, a) == [url |-> url, job |-> jid, code |-> a.code, body |-> a.body]

\* no answer within the timeout
NoAnswer == [code |-> 0, body |-> EmptyDict]

\* S.get(..., timeout=30) got no answer in time: the exception propagates
Raise(url, e) ==
    /\ calls' = Append(calls, Call(url, JOB_IDS[i], NoAnswer))
    /\ exc' = e
    /\ pc' = "raised"
    /\ UNCHANGED <<JOB_MAP, JOB_IDS, i, run, run_results, sources, rows,
                   status_json, index_html, arg, res>>

\* lines 93-111: the next job's listing call, and the record of a job with no run
LatestRun ==
    /\ pc = "loop"
    /\ i <= Len(JOB_IDS)
    /\ \/ Raise("runs", "Timeout")
       \/ \E a \in Answers(ListingBodies(i)) :
            /\ calls' = Append(calls, Call("runs", JOB_IDS[i], a))
            /\ IF raise_for_status(a.code)
               THEN /\ exc' = "HTTPError"
                    /\ pc' = "raised"
                    /\ UNCHANGED <<i, run, rows>>
               ELSE /\ run' = first_run(a.body)
                    /\ exc' = exc
                    /\ IF first_run(a.body) = None
                       THEN /\ rows' = Append(rows, no_run_row(JOB_IDS[i]))
                            /\ i' = i + 1
                            /\ pc' = "loop"
                       ELSE /\ pc' = "run_results"
                            /\ UNCHANGED <<i, rows>>
            /\ UNCHANGED <<JOB_MAP, JOB_IDS, run_results, sources, status_json,
                           index_html, arg, res>>

\* line 39: get_artifact(run["id"], "run_results.json") or {"results": []}
GetRunResults ==
    /\ pc = "run_results"
    /\ \/ Raise("run_results.json", "Timeout")
       \/ \E a \in Answers(RunResultsBodies) :
            /\ calls' = Append(calls, Call("run_results.json", JOB_IDS[i], a))
            /\ run_results' = or_dict(get_artifact(a.code, a.body), [results |-> <<>>])
            /\ pc' = "sources"
            /\ UNCHANGED <<JOB_MAP, JOB_IDS, i, run, sources, rows, exc, status_json,
                           index_html, arg, res>>

\* line 45: get_artifact(run["id"], "sources.json") or {}
GetSources ==
    /\ pc = "sources"
    /\ \/ Raise("sources.json", "Timeout")
       \/ \E a \in Answers(SourcesBodies) :
            /\ calls' = Append(calls, Call("sources.json", JOB_IDS[i], a))
            /\ sources' = or_dict(get_artifact(a.code, a.body), EmptyDict)
            /\ pc' = "evaluate"
            /\ UNCHANGED <<JOB_MAP, JOB_IDS, i, run, run_results, rows, exc,
                           status_json, index_html, arg, res>>

\* lines 40-43, 46-90 and 112-131: the rest of parse_status and the job's record.
\* parse_status's locals end with it, and run is assigned again (line 94) before
\* it is read again.
AppendRow ==
    /\ pc = "evaluate"
    /\ rows' = Append(rows, run_row(JOB_IDS[i], run, parse_status(run, run_results, sources)))
    /\ i' = i + 1
    /\ pc' = "loop"
    /\ run' = None
    /\ run_results' = None
    /\ sources' = None
    /\ UNCHANGED <<JOB_MAP, JOB_IDS, calls, exc, status_json, index_html, arg, res>>

\* lines 133-152: the aggregate, dumped to status.json
WriteStatusJson ==
    /\ pc = "loop"
    /\ i > Len(JOB_IDS)
    /\ status_json' = snapshot(rows)
    /\ pc' = "render"
    /\ UNCHANGED <<JOB_MAP, JOB_IDS, i, run, run_results, sources, rows, calls, exc,
                   index_html, arg, res>>

\* lines 154-189: the page, written to index.html
WriteIndexHtml ==
    /\ pc = "render"
    /\ index_html' = page(rows)
    /\ pc' = "done"
    /\ UNCHANGED <<JOB_MAP, JOB_IDS, i, run, run_results, sources, rows, calls, exc,
                   status_json, arg, res>>

Next ==
    \/ LatestRun
    \/ GetRunResults
    \/ GetSources
    \/ AppendRow
    \/ WriteStatusJson
    \/ WriteIndexHtml

Spec == Init /\ [][Next]_vars

-----------------------------------------------------------------------------
(* The functions on their own: each specification below draws an input,    *)
(* applies one function of the script to it and keeps the result.          *)

\* the state of the script's variables while a function is under test
Idle ==
    /\ JOB_MAP = EmptyDict
    /\ JOB_IDS = <<JobId(1)>>
    /\ pc = "call"
    /\ i = 1
    /\ run = None
    /\ run_results = None
    /\ sources = None
    /\ rows = <<>>
    /\ calls = <<>>
    /\ exc = ""
    /\ status_json = None
    /\ index_html = None
    /\ res = None

\* the entries of a legacy sources.json
LegacyNames ==
    {[name |-> "orders"], [name |-> "", source_name |-> "users"],
     [unique_id |-> "source.events"], EmptyDict}

LegacyEntries ==
    LegacyNames
    \cup {n @@ [status |-> st] : n \in LegacyNames, st \in {"pass", "error", "PASS"}}

\* the entries of a current sources.json
CurrentNames ==
    {[source_name |-> "raw", max_loaded_at_time_ago_in_words |-> "2 hours"],
     [name |-> "orders"], EmptyDict}

CurrentEntries ==
    CurrentNames
    \cup {n @@ [status |-> st] : n \in CurrentNames,
            st \in {"error", "warn", "pass", "ERROR", "runtime error", ""}}

\* what get_artifact may return for sources.json besides a document of one of
\* the two schemas: nothing, an empty document, one of neither schema, one of both
OtherArtifacts ==
    {None, EmptyDict, [metadata |-> EmptyDict],
     [sources |-> <<[name |-> "orders", status |-> "pass"]>>,
      results |-> <<[name |-> "orders", status |-> "error"]>>]}

\* lines 45-75 on one artifact, its list of at most MaxLen entries
InitFreshness ==
    /\ Idle
    /\ \/ arg \in OtherArtifacts
       \/ \E n \in 0..MaxLen : \E e \in [1..n -> LegacyEntries] : arg = [sources |-> e]
       \/ \E n \in 0..MaxLen : \E e \in [1..n -> CurrentEntries] : arg = [results |-> e]

EvaluateFreshness ==
    /\ pc = "call"
    /\ res' = evaluate_freshness(or_dict(arg, EmptyDict))
    /\ pc' = "returned"
    /\ UNCHANGED <<JOB_MAP, JOB_IDS, i, run, run_results, sources, rows, calls, exc,
                   status_json, index_html, arg>>

NextFreshness == EvaluateFreshness

SpecFreshness == InitFreshness /\ [][NextFreshness]_vars

\* the answers of the two artifact calls parse_status is evaluated on
StatusRunResults ==
    Answers({EmptyDict, [results |-> <<>>], FailedTwice,
             [results |-> <<[resource_type |-> "test", status |-> "fail"],
                            [resource_type |-> "test"]>>]})

StatusSources ==
    Answers({EmptyDict, LegacyFailing, CurrentFresh,
             [sources |-> <<[name |-> "orders", status |-> "pass"]>>],
             [results |-> <<[name |-> "orders", status |-> "warn"],
                            [name |-> "users", status |-> "pass"]>>],
             [results |-> <<[name |-> "orders", status |-> "runtime error"]>>],
             [results |-> <<[name |-> "orders", status |-> "pass"],
                            [name |-> "users", status |-> "error"]>>]})

\* lines 35-90 and 112-131 on one run and the answers of its two artifact calls
InitStatus ==
    /\ Idle
    /\ arg \in [run : Runs(1), run_results : StatusRunResults, sources : StatusSources]

ParseStatus ==
    /\ pc = "call"
    /\ res' = run_row(JOB_IDS[i], arg.run,
                parse_status(arg.run,
                    or_dict(get_artifact(arg.run_results.code, arg.run_results.body),
                            [results |-> <<>>]),
                    or_dict(get_artifact(arg.sources.code, arg.sources.body), EmptyDict)))
    /\ pc' = "returned"
    /\ UNCHANGED <<JOB_MAP, JOB_IDS, i, run, run_results, sources, rows, calls, exc,
                   status_json, index_html, arg>>

NextStatus == ParseStatus

SpecStatus == InitStatus /\ [][NextStatus]_vars

\* lines 133-152 on one list of rows
Colors == {"grey", "green", "amber", "red"}

InitOverall ==
    /\ Idle
    /\ \E n \in 0..MaxRows : arg \in [1..n -> {[color |-> c] : c \in Colors}]

Aggregate ==
    /\ pc = "call"
    /\ res' = snapshot(arg)
    /\ pc' = "returned"
    /\ UNCHANGED <<JOB_MAP, JOB_IDS, i, run, run_results, sources, rows, calls, exc,
                   status_json, index_html, arg>>

NextOverall == Aggregate

SpecOverall == InitOverall /\ [][NextOverall]_vars

-----------------------------------------------------------------------------
(* The decision table, under SpecStatus *)

\* the run of the input has the given status code
ArgStatus(code) == "status" \in DOMAIN arg.run /\ arg.run.status = code

\* the run of the input is marked not complete
ArgIncomplete == "is_complete" \in DOMAIN arg.run /\ arg.run.is_complete = FALSE

\* the failed tests of the answer to the run_results.json call
ArgFailedTests ==
    IF arg.run_results.code = 200 /\ "results" \in DOMAIN arg.run_results.body
    THEN Cardinality({k \in DOMAIN arg.run_results.body.results :
            LET x == arg.run_results.body.results[k]
            IN  /\ "resource_type" \in DOMAIN x /\ x.resource_type = "test"
                /\ "status" \in DOMAIN x /\ x.status = "fail"})
    ELSE 0

\* C1: a complete run with status code 10 is green with reason "last run
\* success" exactly when it has no failed test and its freshness verdict is not
\* "fail"; otherwise it is amber and the reason embeds the failed-test count and
\* the freshness verdict.
C1_SuccessDecision ==
    (pc = "returned" /\ ArgStatus(10) /\ ~ArgIncomplete) =>
        /\ (res.color = "green" /\ res.reason = "last run success")
              <=> (res.failed_tests = 0 /\ res.freshness # "fail")
        /\ ~(res.failed_tests = 0 /\ res.freshness # "fail") =>
              /\ res.color = "amber"
              /\ res.reason = "success with issues: tests=" \o ToString(res.failed_tests)
                              \o ", freshness=" \o res.freshness
        /\ res.failed_tests = ArgFailedTests
        /\ res.freshness \in {"ok", "amber", "unknown", "fail"}

\* a successful complete run whose freshness is only at warning level stays green
C1_Witness ==
    /\ pc = "returned" /\ ArgStatus(10) /\ ~ArgIncomplete
    /\ res.failed_tests = 0 /\ res.freshness = "amber" /\ res.color = "green"

\* C2: a run that is not yet complete is amber with reason "run in progress"
\* for every status code, failed-test count and freshness verdict, and the
\* record still carries the failed-test count and the freshness verdict of the
\* run's artifacts.
C2_InProgress ==
    (pc = "returned" /\ ArgIncomplete) =>
        /\ res.color = "amber"
        /\ res.reason = "run in progress"
        /\ res.in_progress = TRUE
        /\ res.failed_tests = ArgFailedTests
        /\ (arg.sources.code = 200 /\ arg.sources.body = LegacyFailing) =>
              (res.freshness = "fail" /\ res.freshness_detail = "users error")
        /\ (arg.sources.code = 200 /\ arg.sources.body = CurrentFresh) =>
              (res.freshness = "ok" /\ res.freshness_detail = "raw fresh (2 hours)")
        /\ arg.sources.code # 200 => res.freshness = "unknown"

\* an incomplete run with status code 20, failed tests and failing freshness
C2_Witness ==
    /\ pc = "returned" /\ ArgIncomplete /\ ArgStatus(20)
    /\ res.failed_tests = 2 /\ res.freshness = "fail" /\ res.color = "amber"

\* C3 as stated: every run with status code 20 is red with reason "last run
\* failed", whatever its failed-test count and freshness verdict.
C3_Original ==
    (pc = "returned" /\ ArgStatus(20)) =>
        (res.color = "red" /\ res.reason = "last run failed")

\* C3, amended: a run with status code 20 that is not marked incomplete is red
\* with reason "last run failed", whatever its failed-test count and freshness
\* verdict; marked incomplete, it is amber with reason "run in progress".
C3_ErrorDecision ==
    (pc = "returned" /\ ArgStatus(20)) =>
        IF ArgIncomplete
        THEN res.color = "amber" /\ res.reason = "run in progress"
        ELSE res.color = "red" /\ res.reason = "last run failed"

\* a complete run with status code 20, failed tests and failing freshness, red
C3_Witness ==
    /\ pc = "returned" /\ ArgStatus(20) /\ ~ArgIncomplete
    /\ res.failed_tests = 2 /\ res.freshness = "fail" /\ res.color = "red"

-----------------------------------------------------------------------------
(* The overall colour, under SpecOverall *)

\* the severity ranking red > amber > green > grey
Rank(c) == CASE c = "red" -> 4 [] c = "amber" -> 3 [] c = "green" -> 2 [] c = "grey" -> 1

\* C4: the overall colour is the maximum-severity colour among the job records
\* under the ranking red > amber > green > grey, and grey for an empty list.
C4_OverallIsMax ==
    pc = "returned" =>
        IF arg = <<>>
        THEN res.overall = "grey"
        ELSE /\ \E k \in DOMAIN arg : arg[k].color = res.overall
             /\ \A k \in DOMAIN arg : Rank(arg[k].color) <= Rank(res.overall)

\* three records, the most severe one neither first nor last
C4_Witness ==
    /\ pc = "returned"
    /\ arg = <<[color |-> "amber"], [color |-> "red"], [color |-> "green"]>>
    /\ res.overall = "red"

-----------------------------------------------------------------------------
(* The freshness verdict, under SpecFreshness *)

\* the artifact is of the legacy shape / of the current shape
ArgLegacy == arg # None /\ "sources" \in DOMAIN arg
ArgCurrent == arg # None /\ "sources" \notin DOMAIN arg /\ "results" \in DOMAIN arg

\* the value of a key that may be missing, "" when it is missing or empty
Field(e, k) == IF k \in DOMAIN e /\ e[k] # null THEN e[k] ELSE ""

\* the entries of a current-shape artifact that have a non-empty status
WithStatus == SelectSeq(arg.results, LAMBDA e : Field(e, "status") # "")

\* the ranking error > warn > pass > anything else
StatusRank(st) == CASE st = "error" -> 3 [] st = "warn" -> 2 [] st = "pass" -> 1 [] OTHER -> 0

\* a status in lower case
LowerCase(st) == CASE st = "ERROR" -> "error" [] st = "PASS" -> "pass" [] OTHER -> st

\* the first entry of the worst rank, the statuses read by Read
FirstWorst(entries, Read(_)) ==
    entries[CHOOSE k \in DOMAIN entries :
        /\ \A j \in DOMAIN entries :
              StatusRank(Read(entries[j].status)) <= StatusRank(Read(entries[k].status))
        /\ \A j \in 1..(k - 1) :
              StatusRank(Read(entries[j].status)) < StatusRank(Read(entries[k].status))]

\* the display name of a current-shape entry: source name, else name, else
\* unique identifier, else "source"
CurrentDisplayName(e) ==
    IF Field(e, "source_name") # "" THEN e.source_name
    ELSE IF Field(e, "name") # "" THEN e.name
    ELSE IF Field(e, "unique_id") # "" THEN e.unique_id
    ELSE "source"

\* "{name} {label} ({elapsed})" of an entry, the label being its status in
\* lower case, or "fresh" for pass
DetailOf(e) ==
    CurrentDisplayName(e)
    \o " " \o (IF LowerCase(e.status) = "pass" THEN "fresh" ELSE LowerCase(e.status))
    \o (IF Field(e, "max_loaded_at_time_ago_in_words") # ""
        THEN " (" \o e.max_loaded_at_time_ago_in_words \o ")" ELSE "")

\* the claim about the current shape, the statuses read by Read
CurrentShape(Read(_)) ==
    /\ (pc = "returned" /\ arg = None) => res.freshness = "unknown"
    /\ (pc = "returned" /\ ArgCurrent) =>
        LET E == WithStatus
            Has(st) == \E k \in DOMAIN E : Read(E[k].status) = st
        IN  /\ Has("error") => res.freshness = "fail"
            /\ (~Has("error") /\ Has("warn")) => res.freshness = "amber"
            /\ (E # <<>> /\ \A k \in DOMAIN E : Read(E[k].status) = "pass")
                  => res.freshness = "ok"
            /\ E = <<>> => (res.freshness = "unknown" /\ res.freshness_detail = "")
            /\ E # <<>> => res.freshness_detail = DetailOf(FirstWorst(E, Read))

Exactly(st) == st

\* C8 as stated: on the entries with a non-empty status, one with status "error"
\* gives "fail"; none "error" but one "warn" gives "amber"; all "pass" gives "ok";
\* no entry (or no artifact) gives "unknown"; the detail is that of the first entry
\* of the worst severity under error > warn > pass > anything else.
C8_Original == CurrentShape(Exactly)

\* C8, amended: the same, with every status compared in lower case ("ERROR"
\* counts as "error", "PASS" as "pass").
C8_CurrentShape == CurrentShape(LowerCase)

\* two entries of the worst severity, after one without a status and a milder one:
\* the detail is that of the first of the two
C8_Witness ==
    /\ pc = "returned" /\ ArgCurrent
    /\ arg.results = <<[name |-> "orders", status |-> "pass"],
                       [name |-> "orders", status |-> "warn"],
                       [source_name |-> "raw", status |-> "warn",
                        max_loaded_at_time_ago_in_words |-> "2 hours"]>>
    /\ res.freshness = "amber"
    /\ res.freshness_detail = "orders warn"

\* the first entry of a legacy artifact whose status is not "pass"
FirstFailing ==
    arg.sources[CHOOSE k \in DOMAIN arg.sources :
        /\ ~("status" \in DOMAIN arg.sources[k] /\ arg.sources[k].status = "pass")
        /\ \A j \in 1..(k - 1) :
              "status" \in DOMAIN arg.sources[j] /\ arg.sources[j].status = "pass"]

\* the display name of a legacy entry: name, else source name, else unique
\* identifier, else "source"
LegacyDisplayName(e) ==
    IF Field(e, "name") # "" THEN e.name
    ELSE IF Field(e, "source_name") # "" THEN e.source_name
    ELSE IF Field(e, "unique_id") # "" THEN e.unique_id
    ELSE "source"

\* C9: for the legacy shape the verdict is "ok" exactly when every entry's
\* status equals "pass", otherwise "fail"; when it is "fail" the detail is the
\* display name of the first entry whose status is not "pass" followed by that
\* entry's status; when it is "ok" the detail is empty.
C9_LegacyShape ==
    (pc = "returned" /\ ArgLegacy) =>
        LET AllPass == \A k \in DOMAIN arg.sources :
                          "status" \in DOMAIN arg.sources[k] /\ arg.sources[k].status = "pass"
        IN  /\ res.freshness = (IF AllPass THEN "ok" ELSE "fail")
            /\ AllPass => res.freshness_detail = ""
            /\ ~AllPass =>
                  res.freshness_detail =
                      LegacyDisplayName(FirstFailing) \o " "
                      \o (IF "status" \in DOMAIN FirstFailing
                          THEN FirstFailing.status ELSE "None")

\* a passing entry, then an entry in capitals, which is not "pass", then a failing one
C9_Witness ==
    /\ pc = "returned" /\ ArgLegacy
    /\ arg.sources = <<[name |-> "orders", status |-> "pass"],
                       [name |-> "", source_name |-> "users", status |-> "PASS"],
                       [name |-> "orders", status |-> "error"]>>
    /\ res.freshness = "fail"
    /\ res.freshness_detail = "users PASS"

-----------------------------------------------------------------------------
(* The invocation, under Spec *)

\* the position of a job id in the configuration
JobPos(jid) == CHOOSE k \in DOMAIN JOB_IDS : JOB_IDS[k] = jid

\* the request of the given kind issued for a job
CallOf(jid, url) ==
    calls[CHOOSE m \in DOMAIN calls : calls[m].job = jid /\ calls[m].url = url]

\* C5: a non-success answer to the run-listing call of any job aborts the
\* invocation and neither status.json nor index.html is written; they are
\* written only after the listing call succeeded for every configured job.
C5_NoPartialSnapshot ==
    /\ (\E m \in DOMAIN calls : calls[m].url = "runs" /\ calls[m].code # 200) =>
          (pc = "raised" /\ status_json = None /\ index_html = None)
    /\ (status_json # None \/ index_html # None) =>
          /\ \A k \in DOMAIN JOB_IDS :
                \E m \in DOMAIN calls :
                    calls[m].url = "runs" /\ calls[m].job = JOB_IDS[k] /\ calls[m].code = 200
          /\ status_json # None
          /\ Len(status_json.jobs) = Len(JOB_IDS)

\* the listing of the second of two jobs answers 404 after the first job's
\* record was built: the script has stopped with nothing written
C5_Witness ==
    /\ pc = "raised" /\ exc = "HTTPError"
    /\ Len(JOB_IDS) = 2 /\ Len(rows) = 1
    /\ calls[Len(calls)].url = "runs" /\ calls[Len(calls)].code = 404
    /\ status_json = None /\ index_html = None

\* C6: a non-200 answer to an artifact call never aborts the invocation; the
\* missing test results give a failed-test count of 0, the missing freshness
\* artifact gives "unknown" with an empty detail, each signal of each job follows
\* from the answer to its own call only, and the snapshot is still written.
C6_ArtifactAbsent ==
    /\ pc = "raised" =>
          \/ calls[Len(calls)].code = 0
          \/ calls[Len(calls)].url = "runs" /\ calls[Len(calls)].code \in {404, 500}
    /\ \A k \in DOMAIN rows :
          rows[k].reason # "no runs" =>
              LET tests == CallOf(rows[k].job_id, "run_results.json")
                  fresh == CallOf(rows[k].job_id, "sources.json")
              IN  /\ tests.code # 200 => rows[k].failed_tests = 0
                  /\ (tests.code = 200 /\ tests.body = FailedTwice) =>
                        rows[k].failed_tests = 2
                  /\ fresh.code # 200 =>
                        (rows[k].freshness = "unknown" /\ rows[k].freshness_detail = "")
                  /\ (fresh.code = 200 /\ fresh.body = LegacyFailing) =>
                        (rows[k].freshness = "fail"
                         /\ rows[k].freshness_detail = "users error")
                  /\ (fresh.code = 200 /\ fresh.body = CurrentFresh) =>
                        (rows[k].freshness = "ok"
                         /\ rows[k].freshness_detail = "raw fresh (2 hours)")
    /\ pc \in {"render", "done"} => (status_json # None /\ status_json.jobs = rows)

\* both files written although the first job's test results answered 404 (its
\* freshness artifact was read) and the second job's freshness artifact answered
\* 500 (its test results were read)
C6_Witness ==
    /\ pc = "done" /\ status_json # None /\ index_html # None
    /\ Len(rows) = 2
    /\ rows[1].reason # "no runs" /\ rows[2].reason # "no runs"
    /\ CallOf(rows[1].job_id, "run_results.json").code = 404
    /\ rows[1].failed_tests = 0 /\ rows[1].freshness = "fail"
    /\ CallOf(rows[2].job_id, "sources.json").code = 500
    /\ rows[2].failed_tests = 2 /\ rows[2].freshness = "unknown"

\* the listing answered 200 with no run in it (an empty list, or no list at all)
EmptyListing(c) ==
    c.url = "runs" /\ c.code = 200 /\ ("data" \in DOMAIN c.body => c.body.data = <<>>)

\* C7: a job whose listing holds no run gets the record grey / "no runs" with
\* freshness "unknown", no artifact request is issued for it, and the
\* invocation goes on with the next job.
C7_NoRuns ==
    \A m \in DOMAIN calls :
        EmptyListing(calls[m]) =>
            LET jid == calls[m].job
                k == JobPos(jid)
            IN  /\ k <= Len(rows)
                /\ rows[k].job_id = jid
                /\ rows[k].color = "grey"
                /\ rows[k].reason = "no runs"
                /\ rows[k].freshness = "unknown"
                /\ ~\E n \in DOMAIN calls : calls[n].job = jid /\ calls[n].url # "runs"
                /\ m = Len(calls) => (exc = "" /\ pc \in {"loop", "render", "done"})
                /\ m < Len(calls) =>
                      /\ k < Len(JOB_IDS)
                      /\ calls[m + 1].url = "runs"
                      /\ calls[m + 1].job = JOB_IDS[k + 1]

\* the first job has no run, the second one has a run and its artifacts were asked for
C7_Witness ==
    /\ Len(rows) = 2
    /\ EmptyListing(calls[1])
    /\ rows[1].color = "grey" /\ rows[1].reason = "no runs"
    /\ rows[2].reason # "no runs"
    /\ Len(calls) = 4

\* the number of records of a colour in the snapshot
Records(c) == Cardinality({k \in DOMAIN status_json.jobs : status_json.jobs[k].color = c})

\* the entry of a colour in the snapshot's counts, 0 when it has none
Count(c) == IF c \in DOMAIN status_json.counts THEN status_json.counts[c] ELSE 0

\* C10: a written snapshot holds one record per configured job id, in
\* configuration order; its total is the number of configured ids; the count of
\* each colour is the number of records of that colour; the counts sum to the
\* total; every record's colour is one of the four and its reason is not empty.
C10_Snapshot ==
    status_json # None =>
        /\ Len(status_json.jobs) = Len(JOB_IDS)
        /\ \A k \in DOMAIN JOB_IDS : status_json.jobs[k].job_id = JOB_IDS[k]
        /\ status_json.total_jobs = Len(JOB_IDS)
        /\ DOMAIN status_json.counts \subseteq Colors
        /\ \A c \in Colors : Count(c) = Records(c)
        /\ \A c \in DOMAIN status_json.counts : status_json.counts[c] > 0
        /\ Count("grey") + Count("green") + Count("amber") + Count("red")
              = status_json.total_jobs
        /\ \A k \in DOMAIN status_json.jobs :
              /\ status_json.jobs[k].color \in Colors
              /\ status_json.jobs[k].reason # ""

\* a snapshot of two jobs configured in descending order, both amber
C10_Witness ==
    /\ status_json # None
    /\ JOB_IDS = <<"102", "101">>
    /\ status_json.jobs[1].job_id = "102"
    /\ "amber" \in DOMAIN status_json.counts /\ status_json.counts["amber"] = 2

====
